---- MODULE Spec2Model ----
(***************************************************************************)
(* A model of rds-snapshot-share (src/src/main.rs): the paginated listings *)
(* of the RDS and KMS clients, the classification of KMS keys by alias,    *)
(* and the orchestration in main.                                          *)
(*                                                                         *)
(* Rust Strings are modelled as sequences of characters, Option<T> as a    *)
(* sequence of length 0 (None) or 1 (Some), Vec<T> as a sequence and       *)
(* HashMap<K, V> as a function whose domain is the set of keys.            *)
(***************************************************************************)
EXTENDS Integers, Sequences, FiniteSets, TLC

\* Bounds of the model.
MaxKeys == 3
MaxAliases == 2
MaxItems == 3
MaxRuns == 2

---------------------------------------------------------------------------
\* Option<T>
None == <<>>
Some(x) == <<x>>
IsSome(o) == Len(o) = 1
Unwrapped(o) == o[1]

\* Result<T, E>: the error's payload is not modelled.
Ok(x) == [ok |-> TRUE, val |-> x]
Err == [ok |-> FALSE, val |-> <<>>]

\* Strings of the model.
EmptyString == <<>>
K1 == <<"k", "1">>
K2 == <<"k", "2">>
K3 == <<"k", "3">>
AliasAwsPrefix == <<"a", "l", "i", "a", "s", "/", "a", "w", "s">>
AliasAwsRds == <<"a", "l", "i", "a", "s", "/", "a", "w", "s", "/", "r", "d", "s">>
AliasMyKey == <<"a", "l", "i", "a", "s", "/", "m", "y", "-", "k", "e", "y">>

\* str::starts_with
StartsWith(s, p) == Len(s) >= Len(p) /\ SubSeq(s, 1, Len(p)) = p

\* Option<&str>::unwrap_or_default().to_string()
UnwrapOrDefault(o) == IF IsSome(o) THEN Unwrapped(o) ELSE EmptyString

Min(a, b) == IF a < b THEN a ELSE b

\* All sequences over S of length at most n.
SeqsUpTo(S, n) == UNION {[1..k -> S] : k \in 0..n}

\* Sequences without a repeated element.
IsInjective(s) == \A i, j \in 1..Len(s) : s[i] = s[j] => i = j

---------------------------------------------------------------------------
(* The services' answers and the paginated listings.                       *)

\* The function under way: one of the five paginated listings, list_keys
\* standing for its two joined fetches (list_aliases and list_all_keys).
\* fn: its name; data: what the service holds for each of its fetches;
\* page_size: the service's page size; fail_at: the page on which each fetch
\* meets a service error (0: none); stream: each fetch's paginator and
\* collector; call: the function's progress and result.
VARIABLES fn, data, page_size, fail_at, stream, call

listVars == <<fn, data, page_size, fail_at, stream, call>>

\* A run of main, and the runs that repeat it.
\* args: the parsed command line; svc: what the two services hold, the same
\* in every run; pc: main's position; locals: main's variables, None until
\* bound; log: the listings called and the prompts asked in this run, in
\* order; stdout: the lines printed in this run; run: the number of the run
\* under way; script: the operator's answers in the first run, given again in
\* the later runs; history: how the earlier runs ended.
VARIABLES args, svc, pc, locals, log, stdout, run, script, history

mainVars == <<args, svc, pc, locals, log, stdout, run, script, history>>

vars == <<fn, data, page_size, fail_at, stream, call,
          args, svc, pc, locals, log, stdout, run, script, history>>

KeyIds == {K1, K2, K3}
AliasNames == {AliasAwsRds, AliasMyKey}

\* The page sizes the services may use.
PageSizes == {1, 2}

\* kms::model::KeyListEntry
KeyListEntries == {[key_id |-> Some(k)] : k \in KeyIds}

\* kms::model::AliasListEntry: an alias may have no target key.
AliasListEntries ==
    {[alias_name |-> Some(n), target_key_id |-> t] :
        n \in AliasNames, t \in {None} \cup {Some(k) : k \in KeyIds}}

\* rds DBInstance: the member of a cluster names its cluster.
InstanceIds == {<<"d", "b", "1">>, <<"d", "b", "2">>}
ClusterIds == {<<"c", "l", "1">>, <<"c", "l", "2">>}
DBInstances ==
    {[db_instance_identifier |-> Some(i), db_cluster_identifier |-> c] :
        i \in InstanceIds, c \in {None, Some(<<"c", "l", "1">>)}}

\* rds DBCluster
DBClusters == {[db_cluster_identifier |-> Some(c)] : c \in ClusterIds}

\* rds DBClusterSnapshot: the creation time in seconds since the epoch.
SnapshotIds == {<<"s", "1">>, <<"s", "2">>}
SnapshotTimes == {0, 1672628645}
DBClusterSnapshots ==
    {[db_cluster_snapshot_identifier |-> Some(i), snapshot_create_time |-> Some(t)] :
        i \in SnapshotIds, t \in SnapshotTimes}

\* The number of pages the service cuts a list of n items into: a first page
\* is always answered, also for an empty list.
NumPages(n, size) == IF n = 0 THEN 1 ELSE (n + size - 1) \div size

\* The service's answer to the request for page `token` of list d: an error
\* on the failing page, else the page's items and the cursor of the next
\* page, if any.
ServicePage(d, size, failAt, token) ==
    IF token = failAt
    THEN Err
    ELSE Ok([items |-> SubSeq(d, (token - 1) * size + 1, Min(token * size, Len(d))),
             next_token |-> IF token < NumPages(Len(d), size)
                            THEN Some(token + 1) ELSE None])

\* A paginator before its first request: the next request's cursor, the
\* items collected so far, its state, and the requests sent for each page.
NewStream(d, size) ==
    [token |-> 1, acc |-> <<>>, st |-> "running",
     fetched |-> [p \in 1..NumPages(Len(d), size) |-> 0]]

\* Mutant of PaginatorStep: an error ends the collection with the items
\* collected so far.
PaginatorStepKeepingItems(s, resp) ==
    LET sent == [s.fetched EXCEPT ![s.token] = @ + 1]
    IN IF ~resp.ok
       THEN [s EXCEPT !.st = "ok", !.fetched = sent]
       ELSE IF IsSome(resp.val.next_token)
            THEN [s EXCEPT !.acc = @ \o resp.val.items, !.fetched = sent,
                           !.token = Unwrapped(resp.val.next_token)]
            ELSE [s EXCEPT !.acc = @ \o resp.val.items, !.fetched = sent,
                           !.st = "ok"]

\* One poll of paginator.collect::<Result<Vec<_>, _>>(): the page of the
\* stream's cursor is requested; an error ends the collection and drops the
\* vector, a page without a cursor ends it with the vector.
PaginatorStep(s, resp) ==
    LET sent == [s.fetched EXCEPT ![s.token] = @ + 1]
    IN IF ~resp.ok
       THEN [s EXCEPT !.acc = <<>>, !.st = "err", !.fetched = sent]
       ELSE IF IsSome(resp.val.next_token)
            THEN [s EXCEPT !.acc = @ \o resp.val.items, !.fetched = sent,
                           !.token = Unwrapped(resp.val.next_token)]
            ELSE [s EXCEPT !.acc = @ \o resp.val.items, !.fetched = sent,
                           !.st = "ok"]

\* What the collection returns once it has ended.
Collected(s) == IF s.st = "ok" THEN Ok(s.acc) ELSE Err

\* The whole collection in one go, for the callers that await it alone.
RECURSIVE Drain(_, _, _, _)
Drain(s, d, size, failAt) ==
    IF s.st # "running"
    THEN Collected(s)
    ELSE Drain(PaginatorStep(s, ServicePage(d, size, failAt, s.token)), d, size, failAt)

CollectAll(d, size, failAt) == Drain(NewStream(d, size), d, size, failAt)

\* Mutant of StandaloneInstanceIds: the filter is left out.
AllInstanceIds(instances) ==
    [i \in 1..Len(instances) |-> Unwrapped(instances[i].db_instance_identifier)]

\* RDS::describe_instances after the collection (filter, then map): the
\* identifiers of the instances that name no cluster, in the list's order.
RECURSIVE StandaloneInstanceIds(_)
StandaloneInstanceIds(instances) ==
    IF instances = <<>>
    THEN <<>>
    ELSE (IF Head(instances).db_cluster_identifier = None
          THEN <<Unwrapped(Head(instances).db_instance_identifier)>>
          ELSE <<>>) \o StandaloneInstanceIds(Tail(instances))

\* RDS::describe_clusters after the collection.
ClusterIdentifiers(clusters) ==
    [i \in 1..Len(clusters) |-> Unwrapped(clusters[i].db_cluster_identifier)]

\* The characters of the decimal digits.
Digit(n) == <<"0", "1", "2", "3", "4", "5", "6", "7", "8", "9">>[n + 1]
Pad2(n) == <<Digit((n \div 10) % 10), Digit(n % 10)>>
Pad4(n) == Pad2(n \div 100) \o Pad2(n % 100)

\* NaiveDateTime::from_timestamp_opt(secs, 0) of a time at or after the
\* epoch, as chrono computes the civil date from the day count.
CivilFromSecs(secs) ==
    LET days == secs \div 86400
        rem == secs % 86400
        z == days + 719468
        era == z \div 146097
        doe == z - era * 146097
        yoe == (doe - doe \div 1460 + doe \div 36524 - doe \div 146096) \div 365
        doy == doe - (365 * yoe + yoe \div 4 - yoe \div 100)
        mp == (5 * doy + 2) \div 153
        d == doy - (153 * mp + 2) \div 5 + 1
        m == IF mp < 10 THEN mp + 3 ELSE mp - 9
        y == yoe + era * 400 + (IF m <= 2 THEN 1 ELSE 0)
    IN [year |-> y, month |-> m, day |-> d,
        hour |-> rem \div 3600, minute |-> (rem % 3600) \div 60, second |-> rem % 60]

\* datetime.format("%Y-%m-%d %H:%M:%S")
FormatDateTime(t) ==
    Pad4(t.year) \o <<"-">> \o Pad2(t.month) \o <<"-">> \o Pad2(t.day) \o <<" ">>
    \o Pad2(t.hour) \o <<":">> \o Pad2(t.minute) \o <<":">> \o Pad2(t.second)

\* format!("{}|{}", snapshot_id, datetime.format(...))
SnapshotDescriptor(s) ==
    Unwrapped(s.db_cluster_snapshot_identifier) \o <<"|">>
    \o FormatDateTime(CivilFromSecs(Unwrapped(s.snapshot_create_time)))

\* RDS::describe_db_cluster_snapshots after the collection.
SnapshotDescriptors(snapshots) ==
    [i \in 1..Len(snapshots) |-> SnapshotDescriptor(snapshots[i])]

---------------------------------------------------------------------------
(* KMS::list_keys: the alias mapping and the classification of the keys.   *)

\* Mutant of Insert: the first value held for a key is kept.
InsertIfAbsent(m, k, v) == [x \in DOMAIN m \cup {k} |-> IF x \in DOMAIN m THEN m[x] ELSE v]

\* HashMap::insert: a later value replaces the one held for the same key.
Insert(m, k, v) == [x \in DOMAIN m \cup {k} |-> IF x = k THEN v ELSE m[x]]

\* The key an alias is stored under: its target key id, or the empty string
\* when it has none.
AliasMapKey(al) == UnwrapOrDefault(al.target_key_id)

\* aliases.iter().map(|al| (id, al)).collect::<HashMap<_, _>>(): the pairs
\* are inserted in the order of the vector.
RECURSIVE AliasMap(_)
AliasMap(aliases) ==
    IF aliases = <<>>
    THEN <<>>
    ELSE LET n == Len(aliases)
         IN Insert(AliasMap(SubSeq(aliases, 1, n - 1)), AliasMapKey(aliases[n]), aliases[n])

\* The match on alias_map.get(id): the key's type and the alias it carries.
KeyTypeAndAlias(alias_map, id) ==
    IF id \in DOMAIN alias_map
    THEN LET name == Unwrapped(alias_map[id].alias_name)
         IN IF StartsWith(name, AliasAwsPrefix)
            THEN [key_type |-> "AWS", alias |-> Some(name)]
            ELSE [key_type |-> "Custom", alias |-> Some(name)]
    ELSE [key_type |-> "Custom", alias |-> None]

\* Mutant of PushIfCustom: a Custom key is put at the front.
PushFrontIfCustom(customer_managed_keys, alias_map, key) ==
    LET id == Unwrapped(key.key_id)
        ta == KeyTypeAndAlias(alias_map, id)
    IN IF ta.key_type = "Custom"
       THEN <<[id |-> id, alias |-> ta.alias]>> \o customer_managed_keys
       ELSE customer_managed_keys

\* One turn of the loop over the keys: a Custom key is pushed.
PushIfCustom(customer_managed_keys, alias_map, key) ==
    LET id == Unwrapped(key.key_id)
        ta == KeyTypeAndAlias(alias_map, id)
    IN IF ta.key_type = "Custom"
       THEN Append(customer_managed_keys, [id |-> id, alias |-> ta.alias])
       ELSE customer_managed_keys

\* The loop over the keys, in the order of the vector.
RECURSIVE CustomerManagedKeys(_, _)
CustomerManagedKeys(alias_map, keys) ==
    IF keys = <<>>
    THEN <<>>
    ELSE LET n == Len(keys)
         IN PushIfCustom(CustomerManagedKeys(alias_map, SubSeq(keys, 1, n - 1)),
                         alias_map, keys[n])

\* How a function ends: it returns a Result, or it panics on an unwrap.
Returned(r) == [pc |-> "returned", result |-> Some(r)]
Panicked == [pc |-> "panicked", result |-> None]
Awaiting == [pc |-> "await", result |-> None]

\* KMS::list_keys after the join, given what the two fetches returned:
\* aliases.unwrap(), the alias mapping, keys.unwrap(), the loop.
ListKeysAfterJoin(aliases, keys) ==
    IF ~aliases.ok
    THEN Panicked
    ELSE LET alias_map == AliasMap(aliases.val)
         IN IF ~keys.ok
            THEN Panicked
            ELSE Returned(Ok(CustomerManagedKeys(alias_map, keys.val)))

\* RDS::describe_instances, describe_clusters and
\* describe_db_cluster_snapshots after the collection: the ? operator
\* returns the error, else the collected items are mapped to strings.
DescribeInstances(collected) ==
    IF ~collected.ok THEN Returned(Err)
    ELSE Returned(Ok(StandaloneInstanceIds(collected.val)))

DescribeClusters(collected) ==
    IF ~collected.ok THEN Returned(Err)
    ELSE Returned(Ok(ClusterIdentifiers(collected.val)))

DescribeDbClusterSnapshots(collected) ==
    IF ~collected.ok THEN Returned(Err)
    ELSE Returned(Ok(SnapshotDescriptors(collected.val)))

\* Mutant of JoinReady: the function goes on once one fetch has ended.
JoinAny(streams) == \E n \in DOMAIN streams : streams[n].st # "running"

\* join!(aliases_future, keys_future), and the await of a single collection:
\* the function goes on once every fetch it awaits has ended.
JoinReady(streams) == \A n \in DOMAIN streams : streams[n].st # "running"

---------------------------------------------------------------------------
(* The specification of the listings.                                      *)

ListFns == {"list_keys", "describe_instances", "describe_clusters",
            "describe_db_cluster_snapshots"}

\* The lists the service may hold for each function's fetches.
ServiceData(f) ==
    CASE f = "list_keys" ->
           {[aliases |-> a, keys |-> k] :
               a \in SeqsUpTo(AliasListEntries, MaxAliases),
               k \in {ks \in SeqsUpTo(KeyListEntries, MaxKeys) : IsInjective(ks)}}
      [] f = "describe_instances" ->
           {[items |-> d] : d \in SeqsUpTo(DBInstances, MaxItems)}
      [] f = "describe_clusters" ->
           {[items |-> d] : d \in {cs \in SeqsUpTo(DBClusters, MaxItems) : IsInjective(cs)}}
      [] f = "describe_db_cluster_snapshots" ->
           {[items |-> d] : d \in SeqsUpTo(DBClusterSnapshots, MaxItems)}

ListInit ==
    /\ fn \in ListFns
    /\ data \in ServiceData(fn)
    /\ page_size \in PageSizes
    /\ fail_at \in [DOMAIN data -> 0..(MaxAliases + MaxKeys + MaxItems)]
    /\ \A n \in DOMAIN data : fail_at[n] <= NumPages(Len(data[n]), page_size)
    /\ stream = [n \in DOMAIN data |-> NewStream(data[n], page_size)]
    /\ call = Awaiting

\* One page of one fetch: the paginator requests it and the collector takes
\* the answer.
Poll(n) ==
    /\ call.pc = "await"
    /\ stream[n].st = "running"
    /\ stream' = [stream EXCEPT ![n] =
           PaginatorStep(@, ServicePage(data[n], page_size, fail_at[n], @.token))]
    /\ UNCHANGED <<fn, data, page_size, fail_at, call>>
    /\ UNCHANGED mainVars

ListKeysReturn ==
    /\ fn = "list_keys"
    /\ call.pc = "await"
    /\ JoinReady(stream)
    /\ call' = ListKeysAfterJoin(Collected(stream.aliases), Collected(stream.keys))
    /\ UNCHANGED <<fn, data, page_size, fail_at, stream>>
    /\ UNCHANGED mainVars

DescribeInstancesReturn ==
    /\ fn = "describe_instances"
    /\ call.pc = "await"
    /\ JoinReady(stream)
    /\ call' = DescribeInstances(Collected(stream.items))
    /\ UNCHANGED <<fn, data, page_size, fail_at, stream>>
    /\ UNCHANGED mainVars

DescribeClustersReturn ==
    /\ fn = "describe_clusters"
    /\ call.pc = "await"
    /\ JoinReady(stream)
    /\ call' = DescribeClusters(Collected(stream.items))
    /\ UNCHANGED <<fn, data, page_size, fail_at, stream>>
    /\ UNCHANGED mainVars

DescribeSnapshotsReturn ==
    /\ fn = "describe_db_cluster_snapshots"
    /\ call.pc = "await"
    /\ JoinReady(stream)
    /\ call' = DescribeDbClusterSnapshots(Collected(stream.items))
    /\ UNCHANGED <<fn, data, page_size, fail_at, stream>>
    /\ UNCHANGED mainVars

ListNext ==
    \/ \E n \in DOMAIN stream : Poll(n)
    \/ ListKeysReturn
    \/ DescribeInstancesReturn
    \/ DescribeClustersReturn
    \/ DescribeSnapshotsReturn

---------------------------------------------------------------------------
(* The prompts and main.                                                   *)


Range(s) == {s[i] : i \in 1..Len(s)}

\* The sequences that list each element of the set S once.
Orders(S) == {o \in [1..Cardinality(S) -> S] : Range(o) = S}

\* An entry of the log: a listing or a prompt, the identifier a listing was
\* called with, the number of options a prompt was called with, and whether
\* the prompt was put on the screen.
Event(name, arg, n, shown) == [ev |-> name, arg |-> arg, n |-> n, shown |-> shown]

\* inquire's Select::new(prompt, choices).prompt(), given the operator's
\* answer (None: the operator cancels): without options it returns an error
\* and shows nothing, else it shows the options and returns the answer.
SelectPrompt(choices, answer) ==
    IF choices = <<>>
    THEN [shown |-> FALSE, res |-> Err]
    ELSE [shown |-> TRUE, res |-> IF IsSome(answer) THEN Ok(Unwrapped(answer)) ELSE Err]

\* inquire's Confirm::new(prompt).prompt(): the operator's yes or no, or an
\* error when the operator cancels.
confirm_use_exisitng_snapshot(answer) ==
    IF IsSome(answer) THEN Ok(Unwrapped(answer)) ELSE Err

\* choices.iter().position(|c| c == ans).unwrap()
Position(choices, ans) ==
    CHOOSE i \in 1..Len(choices) :
        /\ choices[i] = ans
        /\ \A j \in 1..(i - 1) : choices[j] # ans

\* Mutant of select: a failed prompt yields the default string.
select_or_default(choices, answer) ==
    LET ans == SelectPrompt(choices, answer).res
    IN IF ~ans.ok THEN Ok(EmptyString) ELSE Ok(choices[Position(choices, ans.val)])

\* select: the ? operator returns the prompt's error, else the choice at the
\* answer's position is returned.
select(choices, answer) ==
    LET ans == SelectPrompt(choices, answer).res
    IN IF ~ans.ok THEN Err ELSE Ok(choices[Position(choices, ans.val)])

select_rds(identifiers, answer) == select(identifiers, answer)

select_snapshot(snapshots, answer) == select(snapshots, answer)

\* The label select_keys shows for a key: its alias, or its id without one.
KeyLabel(key) == IF IsSome(key.alias) THEN Unwrapped(key.alias) ELSE key.id

\* select_keys' map from label to key, collected in the order of the vector.
RECURSIVE KeyLabelMap(_)
KeyLabelMap(keys) ==
    IF keys = <<>>
    THEN <<>>
    ELSE LET n == Len(keys)
         IN Insert(KeyLabelMap(SubSeq(keys, 1, n - 1)), KeyLabel(keys[n]), keys[n])

\* Mutant of select_keys: the key at the answer's place among the options
\* shown is returned.
select_keys_by_position(keys, order, answer) ==
    LET ans == select(order, answer)
    IN IF ~ans.ok THEN Panicked
       ELSE Returned(Ok(keys[Position(order, ans.val)].id))

\* select_keys, given the order in which this run's HashMap yields its keys
\* (the options shown) and the operator's answer: it panics when select
\* fails or when the map holds no key for the answer, else returns the id of
\* the key held for the chosen label.
select_keys(keys, order, answer) ==
    LET ans == select(order, answer)
        map == KeyLabelMap(keys)
    IN IF ~ans.ok THEN Panicked
       ELSE IF ans.val \notin DOMAIN map THEN Panicked
       ELSE Returned(Ok(map[ans.val].id))

\* The values given on the command line.
ArgIdentifier == <<"d", "b", "x">>
ArgKeyId == <<"k", "x">>
ArgSnapshotId == <<"s", "x">>

ArgsSet ==
    [db_identifier : {None, Some(ArgIdentifier)},
     kms_key_id : {None, Some(ArgKeyId)},
     db_type : {"database", "cluster"},
     snapshot_id : {None, Some(ArgSnapshotId)}]

Alias(name, target) == [alias_name |-> Some(name), target_key_id |-> target]
Key(id) == [key_id |-> Some(id)]
Instance(id, cluster) == [db_instance_identifier |-> Some(id), db_cluster_identifier |-> cluster]
Cluster(id) == [db_cluster_identifier |-> Some(id)]
Snapshot(id, secs) ==
    [db_cluster_snapshot_identifier |-> Some(id), snapshot_create_time |-> Some(secs)]

\* A list the service holds, and the page on which its listing fails.
Held(d, failAt) == [d |-> d, fail |-> failAt]

\* What the services may hold in the runs of main: each listing empty,
\* answered, or failing; keys with several aliases, in both orders; two keys
\* sharing an alias name; keys that are all provider-managed.
InstanceLists ==
    {Held(<<>>, 0),
     Held(<<Instance(<<"d", "b", "1">>, None),
            Instance(<<"d", "b", "2">>, Some(<<"c", "l", "1">>))>>, 0),
     Held(<<Instance(<<"d", "b", "1">>, None)>>, 1)}

ClusterLists ==
    {Held(<<>>, 0),
     Held(<<Cluster(<<"c", "l", "1">>), Cluster(<<"c", "l", "2">>)>>, 0),
     Held(<<Cluster(<<"c", "l", "1">>)>>, 1)}

SnapshotLists ==
    {Held(<<>>, 0),
     Held(<<Snapshot(<<"s", "1">>, 1672628645), Snapshot(<<"s", "2">>, 0)>>, 0),
     Held(<<Snapshot(<<"s", "1">>, 0)>>, 1)}

KmsLists ==
    {[aliases |-> Held(<<>>, 0), keys |-> Held(<<>>, 0)],
     [aliases |-> Held(<<>>, 0), keys |-> Held(<<Key(K1), Key(K2)>>, 0)],
     [aliases |-> Held(<<Alias(AliasAwsRds, Some(K1)), Alias(AliasMyKey, Some(K1))>>, 0),
      keys |-> Held(<<Key(K1), Key(K2)>>, 0)],
     [aliases |-> Held(<<Alias(AliasMyKey, Some(K1)), Alias(AliasAwsRds, Some(K1))>>, 0),
      keys |-> Held(<<Key(K1), Key(K2)>>, 0)],
     [aliases |-> Held(<<Alias(AliasMyKey, Some(K1)), Alias(AliasMyKey, Some(K2))>>, 0),
      keys |-> Held(<<Key(K1), Key(K2)>>, 0)],
     [aliases |-> Held(<<Alias(AliasAwsRds, Some(K1)), Alias(AliasAwsRds, Some(K2))>>, 0),
      keys |-> Held(<<Key(K1), Key(K2)>>, 0)],
     [aliases |-> Held(<<Alias(AliasAwsRds, Some(K1)), Alias(AliasMyKey, Some(K1)),
                         Alias(AliasMyKey, Some(K2))>>, 0),
      keys |-> Held(<<Key(K1), Key(K2), Key(K3)>>, 0)],
     [aliases |-> Held(<<Alias(AliasMyKey, Some(K1))>>, 1),
      keys |-> Held(<<Key(K1), Key(K2)>>, 0)],
     [aliases |-> Held(<<Alias(AliasMyKey, Some(K1))>>, 0),
      keys |-> Held(<<Key(K1), Key(K2)>>, 2)]}

Services ==
    {[instances |-> i, clusters |-> c, kms |-> k, snapshots |-> sn] :
        i \in InstanceLists, c \in ClusterLists, k \in KmsLists, sn \in SnapshotLists}

\* A listing of main's run, awaited alone: the whole collection.
Listed(held) == CollectAll(held.d, 1, held.fail)

NoLocals ==
    [identifier |-> None, kms_key_id |-> None, use_existing_snapshot |-> None,
     snapshot |-> None]

NoScript == [rds |-> None, key |-> None, confirm |-> None, snap |-> None]

\* The start of the first run. The listing of the kind --db-type does not
\* ask for is never read: it is held empty.
MainInit ==
    /\ args \in ArgsSet
    /\ svc \in Services
    /\ (args.db_type = "database" => svc.clusters = Held(<<>>, 0))
    /\ (args.db_type = "cluster" => svc.instances = Held(<<>>, 0))
    /\ pc = "resource"
    /\ locals = NoLocals
    /\ log = <<>>
    /\ stdout = <<>>
    /\ run = 1
    /\ script = NoScript
    /\ history = <<>>

\* Mutant of Supplied: the value given on the command line is not looked at.
NeverSupplied(arg) == FALSE

\* The match on an argument of the command line: Some(value) is taken as it
\* is, None leads to the listing and the prompt.
Supplied(arg) == IsSome(arg)

\* The answers the operator may give to a selection among `choices`: any
\* option or a cancellation in the first run, the first run's answer later.
\* Without options no prompt is shown and there is nothing to answer.
Answers(stage, choices) ==
    LET free == {None} \cup {Some(c) : c \in Range(choices)}
    IN IF choices = <<>> THEN {None}
       ELSE IF script[stage] = None THEN free
       ELSE {a \in free : a = Unwrapped(script[stage])}

ConfirmAnswers ==
    LET free == {None, Some(TRUE), Some(FALSE)}
    IN IF script.confirm = None THEN free
       ELSE {a \in free : a = Unwrapped(script.confirm)}

\* The script once the operator has answered a prompt that was shown.
Answered(stage, shown, answer) ==
    IF shown /\ script[stage] = None
    THEN [script EXCEPT ![stage] = Some(answer)]
    ELSE script

\* main, lines 284-295: the identifier given on the command line, else the
\* listing of the instances or of the clusters, unwrapped, and the
\* operator's choice among them, unwrapped.
IdentifierStage ==
    /\ pc = "resource"
    /\ IF Supplied(args.db_identifier)
       THEN /\ locals' = [locals EXCEPT !.identifier = Some(Unwrapped(args.db_identifier))]
            /\ pc' = "key"
            /\ UNCHANGED <<log, script>>
       ELSE LET name == IF args.db_type = "database"
                        THEN "describe_instances" ELSE "describe_clusters"
                identifiers == IF args.db_type = "database"
                               THEN Unwrapped(DescribeInstances(Listed(svc.instances)).result)
                               ELSE Unwrapped(DescribeClusters(Listed(svc.clusters)).result)
            IN IF ~identifiers.ok
               THEN /\ pc' = "panicked"
                    /\ log' = Append(log, Event(name, EmptyString, 0, FALSE))
                    /\ UNCHANGED <<locals, script>>
               ELSE \E answer \in Answers("rds", identifiers.val) :
                       LET shown == SelectPrompt(identifiers.val, answer).shown
                           chosen == select_rds(identifiers.val, answer)
                       IN /\ log' = log \o <<Event(name, EmptyString, 0, FALSE),
                                              Event("select_rds", EmptyString,
                                                    Len(identifiers.val), shown)>>
                          /\ script' = Answered("rds", shown, answer)
                          /\ IF chosen.ok
                             THEN /\ locals' = [locals EXCEPT !.identifier = Some(chosen.val)]
                                  /\ pc' = "key"
                             ELSE /\ pc' = "panicked"
                                  /\ UNCHANGED locals
    /\ UNCHANGED <<args, svc, stdout, run, history>>
    /\ UNCHANGED listVars

\* main, lines 297-305: the key id given on the command line, else
\* list_keys, unwrapped, and select_keys, unwrapped.
KeyStage ==
    /\ pc = "key"
    /\ IF Supplied(args.kms_key_id)
       THEN /\ locals' = [locals EXCEPT !.kms_key_id = Some(Unwrapped(args.kms_key_id))]
            /\ pc' = "confirm"
            /\ UNCHANGED <<log, script>>
       ELSE LET listed == ListKeysAfterJoin(Listed(svc.kms.aliases), Listed(svc.kms.keys))
            IN IF listed.pc = "panicked" \/ ~Unwrapped(listed.result).ok
               THEN /\ pc' = "panicked"
                    /\ log' = Append(log, Event("list_keys", EmptyString, 0, FALSE))
                    /\ UNCHANGED <<locals, script>>
               ELSE LET keys == Unwrapped(listed.result).val
                    IN \E order \in Orders(DOMAIN KeyLabelMap(keys)) :
                       \E answer \in Answers("key", order) :
                          LET shown == SelectPrompt(order, answer).shown
                              chosen == select_keys(keys, order, answer)
                          IN /\ log' = log \o <<Event("list_keys", EmptyString, 0, FALSE),
                                                 Event("select_keys", EmptyString,
                                                       Len(order), shown)>>
                             /\ script' = Answered("key", shown, answer)
                             /\ IF chosen.pc = "returned" /\ Unwrapped(chosen.result).ok
                                THEN /\ locals' = [locals EXCEPT !.kms_key_id =
                                                      Some(Unwrapped(chosen.result).val)]
                                     /\ pc' = "confirm"
                                ELSE /\ pc' = "panicked"
                                     /\ UNCHANGED locals
    /\ UNCHANGED <<args, svc, stdout, run, history>>
    /\ UNCHANGED listVars

\* main, line 307: the yes/no prompt; its Result is kept as it is.
ConfirmStage ==
    /\ pc = "confirm"
    /\ \E answer \in ConfirmAnswers :
          /\ locals' = [locals EXCEPT !.use_existing_snapshot =
                           Some(confirm_use_exisitng_snapshot(answer))]
          /\ script' = [script EXCEPT !.confirm = Some(answer)]
    /\ log' = Append(log, Event("confirm_use_exisitng_snapshot", EmptyString, 2, TRUE))
    /\ pc' = "snapshot"
    /\ UNCHANGED <<args, svc, stdout, run, history>>
    /\ UNCHANGED listVars

\* main, lines 309-319: the snapshot id given on the command line, else the
\* listing of the snapshots of the identifier, unwrapped, and the operator's
\* choice among them, unwrapped.
SnapshotStage ==
    /\ pc = "snapshot"
    /\ IF Supplied(args.snapshot_id)
       THEN /\ locals' = [locals EXCEPT !.snapshot = Some(Unwrapped(args.snapshot_id))]
            /\ pc' = "print"
            /\ UNCHANGED <<log, script>>
       ELSE LET identifier == Unwrapped(locals.identifier)
                snapshots == Unwrapped(DescribeDbClusterSnapshots(Listed(svc.snapshots)).result)
                listing == Event("describe_db_cluster_snapshots", identifier, 0, FALSE)
            IN IF ~snapshots.ok
               THEN /\ pc' = "panicked"
                    /\ log' = Append(log, listing)
                    /\ UNCHANGED <<locals, script>>
               ELSE \E answer \in Answers("snap", snapshots.val) :
                       LET shown == SelectPrompt(snapshots.val, answer).shown
                           chosen == select_snapshot(snapshots.val, answer)
                       IN /\ log' = log \o <<listing,
                                              Event("select_snapshot", EmptyString,
                                                    Len(snapshots.val), shown)>>
                          /\ script' = Answered("snap", shown, answer)
                          /\ IF chosen.ok
                             THEN /\ locals' = [locals EXCEPT !.snapshot = Some(chosen.val)]
                                  /\ pc' = "print"
                             ELSE /\ pc' = "panicked"
                                  /\ UNCHANGED locals
    /\ UNCHANGED <<args, svc, stdout, run, history>>
    /\ UNCHANGED listVars

\* main, lines 321-329: the arguments of println! are evaluated, the kept
\* Result of the yes/no prompt being unwrapped among them, then the line is
\* printed.
PrintStage ==
    /\ pc = "print"
    /\ LET use_existing_snapshot == Unwrapped(locals.use_existing_snapshot)
       IN IF ~use_existing_snapshot.ok
          THEN /\ pc' = "panicked"
               /\ UNCHANGED stdout
          ELSE /\ stdout' = Append(stdout,
                      <<Unwrapped(locals.identifier), Unwrapped(locals.kms_key_id),
                        use_existing_snapshot.val, Unwrapped(locals.snapshot)>>)
               /\ pc' = "done"
    /\ UNCHANGED <<args, svc, locals, log, run, script, history>>
    /\ UNCHANGED listVars

\* How a run ended: where it stopped and what it printed.
Outcome == [pc |-> pc, stdout |-> stdout]

\* The program is run again, on the same command line, against the same
\* services, by an operator who gives the same answers.
RunAgain ==
    /\ pc \in {"done", "panicked"}
    /\ run < MaxRuns
    /\ history' = Append(history, Outcome)
    /\ run' = run + 1
    /\ pc' = "resource"
    /\ locals' = NoLocals
    /\ log' = <<>>
    /\ stdout' = <<>>
    /\ UNCHANGED <<args, svc, script>>
    /\ UNCHANGED listVars

MainNext ==
    \/ IdentifierStage
    \/ KeyStage
    \/ ConfirmStage
    \/ SnapshotStage
    \/ PrintStage
    \/ RunAgain

---------------------------------------------------------------------------
(* The specifications.                                                     *)

\* While the listings are checked, main is not running, and the other way
\* round.
MainIdle ==
    /\ args = [db_identifier |-> None, kms_key_id |-> None, db_type |-> "database",
               snapshot_id |-> None]
    /\ svc = <<>>
    /\ pc = "idle"
    /\ locals = NoLocals
    /\ log = <<>>
    /\ stdout = <<>>
    /\ run = 0
    /\ script = NoScript
    /\ history = <<>>

ListIdle ==
    /\ fn = "main"
    /\ data = <<>>
    /\ page_size = 1
    /\ fail_at = <<>>
    /\ stream = <<>>
    /\ call = Awaiting

\* The five listings, each against every list the service may hold.
Init == ListInit /\ MainIdle

Next == ListNext

Spec == Init /\ [][Next]_vars

\* The runs of main.
InitMain == MainInit /\ ListIdle

NextMain == MainNext

SpecMain == InitMain /\ [][NextMain]_vars

---------------------------------------------------------------------------
(* Properties of the listings, checked under Spec.                         *)

ListKeysReturned == fn = "list_keys" /\ call.pc = "returned"

\* The customer-managed keys list_keys returned.
Output == Unwrapped(call.result).val

OutputIds == [i \in 1..Len(Output) |-> Output[i].id]

\* The places of the aliases of list A that target key id.
AliasesOf(A, id) == {i \in 1..Len(A) : A[i].target_key_id = Some(id)}

IsProviderName(name) == StartsWith(name, AliasAwsPrefix)

\* The alias the mapping holds for key id: the last of list A that targets it.
MatchedAlias(A, id) ==
    LET I == AliasesOf(A, id)
    IN IF I = {} THEN None
       ELSE Some(A[CHOOSE i \in I : \A j \in I : j <= i])

\* C1: a key that is the target of at least one alias whose name starts with
\* alias/aws never appears in the customer-managed output of list_keys,
\* whatever other aliases target it and whatever the order of the aliases.
C1_AnyProviderAliasExcludes ==
    ListKeysReturned =>
        \A i \in 1..Len(Output) :
            \A j \in AliasesOf(data.aliases, Output[i].id) :
                ~IsProviderName(Unwrapped(data.aliases[j].alias_name))

\* C2: list_keys classifies each key by the alias the mapping holds for its
\* id: a dropped key has a matched alias whose name starts with alias/aws; a
\* key of the output has no matched alias and carries none, or carries its
\* matched alias, whose name does not start with alias/aws; the alias a key
\* carries is one that targets it, never one without a target.
C2_ClassifiedByMatchedAlias ==
    ListKeysReturned =>
        /\ \A k \in 1..Len(data.keys) :
              LET id == Unwrapped(data.keys[k].key_id)
                  m == MatchedAlias(data.aliases, id)
                  kept == {i \in 1..Len(Output) : Output[i].id = id}
              IN /\ kept = {} =>
                       IsSome(m) /\ IsProviderName(Unwrapped(Unwrapped(m).alias_name))
                 /\ \A i \in kept :
                       IF IsSome(m)
                       THEN /\ Output[i].alias = Unwrapped(m).alias_name
                            /\ ~IsProviderName(Unwrapped(Output[i].alias))
                       ELSE Output[i].alias = None
        /\ \A i \in 1..Len(Output) :
              IsSome(Output[i].alias) =>
                  \E j \in AliasesOf(data.aliases, Output[i].id) :
                      data.aliases[j].alias_name = Output[i].alias

\* C2's case: a key was dropped for its alias, another is in the output, and
\* an alias without a target was listed.
C2_Witness ==
    /\ ListKeysReturned
    /\ Len(Output) < Len(data.keys)
    /\ Len(Output) > 0
    /\ \E j \in 1..Len(data.aliases) : data.aliases[j].target_key_id = None

\* The place of key id in the key list.
PlaceInKeys(id) == CHOOSE k \in 1..Len(data.keys) : data.keys[k].key_id = Some(id)

\* C3: the output of list_keys holds only ids of the key list, holds no id
\* twice, and lists the surviving keys in the order of the key list.
C3_SubsequenceOfKeys ==
    ListKeysReturned =>
        /\ \A i \in 1..Len(Output) :
              \E k \in 1..Len(data.keys) : data.keys[k].key_id = Some(Output[i].id)
        /\ IsInjective(OutputIds)
        /\ \A i, j \in 1..Len(Output) :
              i < j => PlaceInKeys(Output[i].id) < PlaceInKeys(Output[j].id)

\* C3's case: of three keys the middle one was dropped and the other two
\* are listed.
C3_Witness ==
    /\ ListKeysReturned
    /\ Len(data.keys) = 3
    /\ Len(Output) = 2
    /\ Output[1].id = Unwrapped(data.keys[1].key_id)
    /\ Output[2].id = Unwrapped(data.keys[3].key_id)

\* The places of the instances of the list that name no cluster.
StandalonePlaces == {i \in 1..Len(data.items) : data.items[i].db_cluster_identifier = None}

\* The k-th smallest place of a set of places.
KthPlace(S, k) == CHOOSE i \in S : Cardinality({j \in S : j <= i}) = k

\* C4: describe_instances returns exactly the identifiers of the instances
\* that report no cluster membership, in the service's order.
C4_ExactlyStandalone ==
    (fn = "describe_instances" /\ call.pc = "returned" /\ Unwrapped(call.result).ok) =>
        LET out == Unwrapped(call.result).val
        IN /\ Len(out) = Cardinality(StandalonePlaces)
           /\ \A k \in 1..Len(out) :
                 Some(out[k]) = data.items[KthPlace(StandalonePlaces, k)].db_instance_identifier

\* C4's case: a list with a cluster member between two standalone instances.
C4_Witness ==
    /\ fn = "describe_instances"
    /\ call.pc = "returned"
    /\ Unwrapped(call.result).ok
    /\ Len(data.items) = 3
    /\ StandalonePlaces = {1, 3}

\* C8: list_keys goes past its join only once both fetches have ended, in
\* whatever order their pages were answered, and it returns a result only
\* when both succeeded: with a failed fetch it returns nothing.
C8_ClassifiesAfterBothFetches ==
    (fn = "list_keys" /\ call.pc # "await") =>
        /\ stream.aliases.st # "running"
        /\ stream.keys.st # "running"
        /\ (call.pc = "returned" => stream.aliases.st = "ok" /\ stream.keys.st = "ok")
        /\ (stream.aliases.st = "err" \/ stream.keys.st = "err" => call.result = None)

\* C8's case: list_keys returned after each fetch took two pages or more.
C8_Witness ==
    /\ ListKeysReturned
    /\ stream.aliases.token >= 2
    /\ stream.keys.token >= 2

\* The pages of the list of fetch n.
PagesOf(n) == DOMAIN stream[n].fetched

\* C9: a collection that ended well holds the service's whole list, in
\* order, each page requested once; a collection that met an error ended on
\* the first failing page, holds no item of the earlier pages, and requested
\* the failing page once and no later page; the listing then returns the
\* error (list_keys, which unwraps it, returns nothing).
C9_CollectsAllOrNothing ==
    /\ \A n \in DOMAIN stream :
          /\ \A p \in PagesOf(n) : stream[n].fetched[p] <= 1
          /\ stream[n].st = "ok" =>
                /\ stream[n].acc = data[n]
                /\ fail_at[n] = 0
                /\ \A p \in PagesOf(n) : stream[n].fetched[p] = 1
          /\ stream[n].st = "err" =>
                /\ stream[n].acc = <<>>
                /\ fail_at[n] = stream[n].token
                /\ \A p \in PagesOf(n) :
                      stream[n].fetched[p] = (IF p <= fail_at[n] THEN 1 ELSE 0)
    /\ (call.pc # "await" /\ \E n \in DOMAIN stream : stream[n].st = "err") =>
          IF fn = "list_keys" THEN call = Panicked ELSE call = Returned(Err)

\* C9's case: a listing ended on an error of its second page, after a first
\* page of items.
C9_Witness ==
    /\ call.pc = "returned"
    /\ \E n \in DOMAIN stream : stream[n].st = "err" /\ fail_at[n] = 2 /\ Len(data[n]) >= 2

---------------------------------------------------------------------------
(* Properties of main, checked under SpecMain.                             *)

ResourceEvents == {"describe_instances", "describe_clusters", "select_rds"}
KeyEvents == {"list_keys", "select_keys"}
ConfirmEvents == {"confirm_use_exisitng_snapshot"}
SnapshotEvents == {"describe_db_cluster_snapshots", "select_snapshot"}

\* Whether this run called a listing or a prompt among `names`.
Logged(names) == \E i \in 1..Len(log) : log[i].ev \in names

\* C5: a value given on the command line for the resource identifier, the
\* key id or the snapshot id means that this field's listing and prompt are
\* never performed, and the field of the printed tuple (the first, the
\* second, the fourth) is the given value.
C5_ExplicitValueShortCircuit ==
    /\ IsSome(args.db_identifier) =>
          /\ ~Logged(ResourceEvents)
          /\ pc = "done" => stdout[1][1] = Unwrapped(args.db_identifier)
    /\ IsSome(args.kms_key_id) =>
          /\ ~Logged(KeyEvents)
          /\ pc = "done" => stdout[1][2] = Unwrapped(args.kms_key_id)
    /\ IsSome(args.snapshot_id) =>
          /\ ~Logged(SnapshotEvents)
          /\ pc = "done" => stdout[1][4] = Unwrapped(args.snapshot_id)

\* C5's case: a run given all three values has printed its tuple.
C5_Witness ==
    /\ pc = "done"
    /\ IsSome(args.db_identifier)
    /\ IsSome(args.kms_key_id)
    /\ IsSome(args.snapshot_id)
    /\ Len(stdout) = 1

\* The stage of a listing or a prompt.
StageOf(ev) ==
    IF ev \in ResourceEvents THEN 1
    ELSE IF ev \in KeyEvents THEN 2
    ELSE IF ev \in ConfirmEvents THEN 3
    ELSE 4

\* The yes/no prompt was cancelled in this run.
ConfirmFailed ==
    IsSome(locals.use_existing_snapshot) /\ ~Unwrapped(locals.use_existing_snapshot).ok

\* C6: main runs the stages in the order resource, key, reuse confirmation,
\* snapshot, none twice; once a stage has failed (the cancellation of the
\* yes/no prompt included) no later stage's listing or prompt is performed;
\* and a run that failed prints no tuple.
C6_HaltsAtFailedStage ==
    /\ \A i, j \in 1..Len(log) :
          i < j => /\ StageOf(log[i].ev) <= StageOf(log[j].ev)
                   /\ log[i].ev # log[j].ev
    /\ ConfirmFailed => ~Logged(SnapshotEvents)
    /\ pc = "panicked" => stdout = <<>>
    /\ stdout # <<>> => pc = "done"

SelectEvents == {"select_rds", "select_keys", "select_snapshot"}

\* The variable of main a selection binds.
LocalOf(ev) ==
    IF ev = "select_rds" THEN locals.identifier
    ELSE IF ev = "select_keys" THEN locals.kms_key_id
    ELSE locals.snapshot

\* C7: without a value on the command line, an empty listing is fatal: no
\* prompt is ever shown with zero options, and a run whose selection was
\* called with an empty list has failed, has no choice for that field and
\* has printed nothing.
C7_EmptyCandidatesFatal ==
    \A i \in 1..Len(log) :
        /\ log[i].shown => log[i].n > 0
        /\ (log[i].ev \in SelectEvents /\ log[i].n = 0) =>
              /\ pc = "panicked"
              /\ LocalOf(log[i].ev) = None
              /\ stdout = <<>>

\* C7's case: the snapshot listing of a run without --snapshot-id was empty.
C7_Witness ==
    /\ args.snapshot_id = None
    /\ svc.snapshots = Held(<<>>, 0)
    /\ \E i \in 1..Len(log) : log[i].ev = "select_snapshot" /\ log[i].n = 0
    /\ pc = "panicked"

NoOverrides ==
    args.db_identifier = None /\ args.kms_key_id = None /\ args.snapshot_id = None

\* C10: the runs without a value on the command line, against the same
\* services and with the same answers, end alike: they print the same tuple,
\* or none of them prints one.
C10_RerunsPrintTheSameTuple ==
    NoOverrides =>
        /\ \A i, j \in 1..Len(history) : history[i] = history[j]
        /\ (pc \in {"done", "panicked"} /\ history # <<>>) => Outcome = history[1]

\* C10's case: a later run has printed its tuple, against a key service in
\* which several aliases target one key and two customer-managed keys share
\* a label.
C10_Witness ==
    /\ NoOverrides
    /\ history # <<>>
    /\ pc = "done"
    /\ Len(svc.kms.aliases.d) = 3

====
